---- MODULE Spec2Model ----
(***************************************************************************)
(* kube-machine: the Kubernetes-backed node store (NodeStore over Node     *)
(* annotations), the file-backed node store (config.json per machine) and  *)
(* the KubeletProvisionerWrapper, as state machines.                       *)
(*                                                                         *)
(* Four specifications share the module:                                   *)
(*   Spec      the annotation store, one handler at a time                 *)
(*   SpecRace  two processes running Save on one node name, API call by    *)
(*             API call                                                    *)
(*   SpecFile  the file store, system call by system call, with crashes    *)
(*   SpecProv  the provisioner wrapper and its scp helper                  *)
(***************************************************************************)
EXTENDS Integers, Sequences, FiniteSets, TLC

VARIABLES
    nodes,          \* the API server's Node objects, by name
    saved,          \* per name: the record of the last successful Save, if not removed since
    migrated,       \* the names whose record a Load migrated, not written since
    last,           \* the last handler of the annotation store: input, result, store before
    procs,          \* SpecRace: each process's position in Save and what it read
    writeOrder,     \* SpecRace: the processes in the order their writes reached the server
    fs,             \* SpecFile: per machine name, its directory and the files in it
    fproc,          \* SpecFile: the running process's position in Save
    stable,         \* SpecFile: per name, config.json as it was before the running Save
    fload,          \* SpecFile: the last Load's input and result
    kubeconfigFile, \* SpecProv: the local kubeconfig file
    prov            \* SpecProv: the last Provision or scp call, input and result

kubeVars == <<saved, migrated, last>>

raceVars == <<procs, writeOrder>>

fileVars == <<fs, fproc, stable, fload>>

provVars == <<kubeconfigFile, prov>>

vars == <<nodes, kubeVars, raceVars, fileVars, provVars>>

-----------------------------------------------------------------------------
(* Bounds *)

\* how many driver configurations the saved records range over
MaxDrivers == 2

\* the longest kubeconfig, in bytes
MaxBlobLen == 2

\* the machine names, in the order the API server lists their nodes
NameOrder == <<"node-a", "node-b">>

Names == {NameOrder[i] : i \in 1..Len(NameOrder)}

-----------------------------------------------------------------------------
(* Values *)

\* version.ConfigVersion of libmachine, the schema the stores write
CurrentVersion == 3

\* the schema versions of the records handed to Save: one older client's and the current
Versions == {CurrentVersion - 1, CurrentVersion}

KubeMachineAnnotationKey == "node.alpha.kubernetes.io/kube-machine"

KubeMachineLabel == "kube-machine"

\* an annotation and a label that other components of the cluster put on a node
ForeignAnnotationKey == "node.alpha.kubernetes.io/ttl"

ForeignLabel == "kubernetes.io/hostname"

DriverPool == <<[DriverName |-> "none", Driver |-> "url=tcp://1.2.3.4"],
               [DriverName |-> "generic", Driver |-> "ip=10.0.0.7"],
               [DriverName |-> "digitalocean", Driver |-> "region=fra1"],
               [DriverName |-> "amazonec2", Driver |-> "region=eu-west-1"]>>

Drivers == {DriverPool[i] : i \in 1..MaxDrivers}

HostOptionsSet == {"Memory=1024,Disk=20000"}

\* host.Host: the record of one machine
Hosts == {[ConfigVersion |-> v, Driver |-> d.Driver, DriverName |-> d.DriverName,
           HostOptions |-> o, Name |-> n] :
            v \in Versions, d \in Drivers, o \in HostOptionsSet, n \in Names}

\* errors are tuples of strings; nil is the empty tuple
NoErr == <<>>

NotFoundErr(name) == <<"StatusError", "NotFound", name>>

AlreadyExistsErr(name) == <<"StatusError", "AlreadyExists", name>>

ConflictErr(name) == <<"StatusError", "Conflict", name>>

ServerErr == <<"StatusError", "InternalError">>

IsNotFound(err) == Len(err) >= 2 /\ err[1] = "StatusError" /\ err[2] = "NotFound"

ErrHostDoesNotExist(name) == <<"mcnerror.ErrHostDoesNotExist", name>>

OsErrNotExist == <<"os.ErrNotExist">>

ErrConfigFromFuture == <<"errConfigFromFuture">>

\* fmt.Errorf(prefix + "%s", err): a new error that carries err's text
Errorf(prefix, err) == <<prefix>> \o err

-----------------------------------------------------------------------------
(* Go maps: a nil map reads as empty and is replaced before the first write *)

NilMap == [isNil |-> TRUE, kv |-> <<>>]

MakeMap(k, v) == [isNil |-> FALSE, kv |-> [x \in {k} |-> v]]

HasKey(m, k) == k \in DOMAIN m.kv

MapPut(m, k, v) ==
    LET base == IF m.isNil THEN [isNil |-> FALSE, kv |-> <<>>] ELSE m
    IN  [isNil |-> FALSE,
         kv |-> [x \in DOMAIN base.kv \cup {k} |-> IF x = k THEN v ELSE base.kv[x]]]

-----------------------------------------------------------------------------
(* Serialization *)

\* MarshalIndent losing the driver configuration (the field written empty)
MarshalIndentNoDriver(h) ==
    <<"ConfigVersion", h.ConfigVersion, "Driver", "", "DriverName", h.DriverName,
      "HostOptions", h.HostOptions, "Name", h.Name>>

\* json.MarshalIndent(host, "", "    "): the fields of host.Host in declaration order
MarshalIndent(h) ==
    <<"ConfigVersion", h.ConfigVersion, "Driver", h.Driver, "DriverName", h.DriverName,
      "HostOptions", h.HostOptions, "Name", h.Name>>

\* json.Unmarshal into a host.Host
Unmarshal(data) ==
    [ConfigVersion |-> data[2], Driver |-> data[4], DriverName |-> data[6],
     HostOptions |-> data[8], Name |-> data[10]]

\* host.MigrateHost(h, data): the record of data at the current schema version,
\* and whether a migration was performed; a version from the future is an error
MigrateHost(name, data) ==
    LET stored == Unmarshal(data)
    IN  IF stored.ConfigVersion > CurrentVersion
        THEN [host |-> <<>>, performed |-> FALSE, err |-> ErrConfigFromFuture]
        ELSE IF stored.ConfigVersion = CurrentVersion
        THEN [host |-> <<stored>>, performed |-> FALSE, err |-> NoErr]
        ELSE [host |-> <<[stored EXCEPT !.ConfigVersion = CurrentVersion]>>,
              performed |-> TRUE, err |-> NoErr]

-----------------------------------------------------------------------------
(* The API server's Nodes() resource: ns[name] is <<>> or <<node>> *)

ApiGet(ns, name, fail) ==
    IF fail THEN [node |-> <<>>, err |-> ServerErr]
    ELSE IF ns[name] = <<>> THEN [node |-> <<>>, err |-> NotFoundErr(name)]
    ELSE [node |-> ns[name], err |-> NoErr]

ApiCreate(ns, node, fail) ==
    IF fail THEN [nodes |-> ns, err |-> ServerErr]
    ELSE IF ns[node.Name] # <<>> THEN [nodes |-> ns, err |-> AlreadyExistsErr(node.Name)]
    ELSE [nodes |-> [ns EXCEPT ![node.Name] = <<node>>], err |-> NoErr]

\* stale: the object was written by someone else after it was read (its
\* resourceVersion is no longer the stored one)
ApiUpdate(ns, node, fail, stale) ==
    IF fail THEN [nodes |-> ns, err |-> ServerErr]
    ELSE IF ns[node.Name] = <<>> THEN [nodes |-> ns, err |-> NotFoundErr(node.Name)]
    ELSE IF stale THEN [nodes |-> ns, err |-> ConflictErr(node.Name)]
    ELSE [nodes |-> [ns EXCEPT ![node.Name] = <<node>>], err |-> NoErr]

ApiDelete(ns, name, fail) ==
    IF fail THEN [nodes |-> ns, err |-> ServerErr]
    ELSE IF ns[name] = <<>> THEN [nodes |-> ns, err |-> NotFoundErr(name)]
    ELSE [nodes |-> [ns EXCEPT ![name] = <<>>], err |-> NoErr]

-----------------------------------------------------------------------------
(* NodeStore (Kubernetes-backed) *)

\* the node Save creates when Get reports not found
NewNode(h, data) ==
    [Name |-> h.Name,
     Annotations |-> MakeMap(KubeMachineAnnotationKey, data),
     Labels |-> MakeMap(KubeMachineLabel, "true")]

\* MarkNode building the maps anew instead of writing into the ones it read
MarkNodeFresh(node, data) ==
    [Name |-> node.Name,
     Annotations |-> MakeMap(KubeMachineAnnotationKey, data),
     Labels |-> MakeMap(KubeMachineLabel, "true")]

\* the node Save sends to Update: the node it read, with the marker set
MarkNode(node, data) ==
    [node EXCEPT !.Annotations = MapPut(node.Annotations, KubeMachineAnnotationKey, data),
                 !.Labels = MapPut(node.Labels, KubeMachineLabel, "true")]

\* fault names the API call of the handler that fails with a server error
Save(ns, h, fault) ==
    LET data == MarshalIndent(h)
        got  == ApiGet(ns, h.Name, fault = "save.get")
    IN  IF got.err # NoErr /\ IsNotFound(got.err)
        THEN ApiCreate(ns, NewNode(h, data), fault = "save.write")
        ELSE IF got.err # NoErr
        THEN [nodes |-> ns, err |-> got.err]
        ELSE ApiUpdate(ns, MarkNode(got.node[1], data), fault = "save.write", FALSE)

Remove(ns, name, fault) == ApiDelete(ns, name, fault = "delete")

\* ListFrom without the annotation filter: every node of the cluster
RECURSIVE ListFromAll(_, _)
ListFromAll(ns, i) ==
    IF i > Len(NameOrder) THEN <<>>
    ELSE LET name == NameOrder[i]
             rest == ListFromAll(ns, i + 1)
         IN  IF ns[name] # <<>> THEN <<name>> \o rest ELSE rest

RECURSIVE ListFrom(_, _)
ListFrom(ns, i) ==
    IF i > Len(NameOrder) THEN <<>>
    ELSE LET name == NameOrder[i]
             rest == ListFrom(ns, i + 1)
         IN  IF ns[name] # <<>> /\ HasKey(ns[name][1].Annotations, KubeMachineAnnotationKey)
             THEN <<name>> \o rest
             ELSE rest

List(ns, fault) ==
    IF fault = "list" THEN [names |-> <<>>, err |-> ServerErr]
    ELSE [names |-> ListFrom(ns, 1), err |-> NoErr]

Exists(ns, name, fault) ==
    LET got == ApiGet(ns, name, fault = "get")
    IN  IF got.err # NoErr /\ IsNotFound(got.err) THEN [ok |-> FALSE, err |-> NoErr]
        ELSE IF got.err # NoErr THEN [ok |-> FALSE, err |-> got.err]
        ELSE [ok |-> TRUE, err |-> NoErr]

\* loadConfig saving after every load, migrated or not
loadConfigAlwaysSaves(ns, node, name, fault) ==
    IF ~HasKey(node.Annotations, KubeMachineAnnotationKey)
    THEN [nodes |-> ns, host |-> <<>>, err |-> OsErrNotExist, saves |-> <<>>,
          performed |-> FALSE]
    ELSE LET m == MigrateHost(name, node.Annotations.kv[KubeMachineAnnotationKey])
         IN  IF m.err # NoErr
             THEN [nodes |-> ns, host |-> <<>>,
                   err |-> Errorf("Error getting migrated host: ", m.err),
                   saves |-> <<>>, performed |-> FALSE]
             ELSE LET h == [m.host[1] EXCEPT !.Name = name]
                      s == Save(ns, h, fault)
                  IN  IF s.err # NoErr
                      THEN [nodes |-> s.nodes, host |-> <<>>,
                            err |-> Errorf("Error saving config after migration was performed: ", s.err),
                            saves |-> <<h>>, performed |-> m.performed]
                      ELSE [nodes |-> s.nodes, host |-> <<h>>, err |-> NoErr,
                            saves |-> <<h>>, performed |-> m.performed]

loadConfig(ns, node, name, fault) ==
    IF ~HasKey(node.Annotations, KubeMachineAnnotationKey)
    THEN [nodes |-> ns, host |-> <<>>, err |-> OsErrNotExist, saves |-> <<>>,
          performed |-> FALSE]
    ELSE LET m == MigrateHost(name, node.Annotations.kv[KubeMachineAnnotationKey])
         IN  IF m.err # NoErr
             THEN [nodes |-> ns, host |-> <<>>,
                   err |-> Errorf("Error getting migrated host: ", m.err),
                   saves |-> <<>>, performed |-> FALSE]
             ELSE LET h == [m.host[1] EXCEPT !.Name = name]
                  IN  IF m.performed
                      THEN LET s == Save(ns, h, fault)
                           IN  IF s.err # NoErr
                               THEN [nodes |-> s.nodes, host |-> <<>>,
                                     err |-> Errorf("Error saving config after migration was performed: ", s.err),
                                     saves |-> <<h>>, performed |-> TRUE]
                               ELSE [nodes |-> s.nodes, host |-> <<h>>, err |-> NoErr,
                                     saves |-> <<h>>, performed |-> TRUE]
                      ELSE [nodes |-> ns, host |-> <<h>>, err |-> NoErr,
                            saves |-> <<>>, performed |-> FALSE]

Load(ns, name, fault) ==
    LET got == ApiGet(ns, name, fault = "get")
    IN  IF got.err # NoErr /\ IsNotFound(got.err)
        THEN [nodes |-> ns, host |-> <<>>, err |-> ErrHostDoesNotExist(name),
              saves |-> <<>>, performed |-> FALSE]
        ELSE IF got.err # NoErr
        THEN [nodes |-> ns, host |-> <<>>, err |-> got.err, saves |-> <<>>,
              performed |-> FALSE]
        ELSE loadConfig(ns, got.node[1], name, fault)

-----------------------------------------------------------------------------
(* Spec: the handlers of the Kubernetes-backed store, one at a time *)

SaveFaults == {"none", "save.get", "save.write"}

LoadFaults == {"none", "get", "save.get", "save.write"}

\* what the last handler was given, what it returned, and the store before it
Outcome(op, name, arg, fault, host, names, ok, err, saves, performed) ==
    [op |-> op, name |-> name, arg |-> arg, fault |-> fault,
     before |-> nodes, savedBefore |-> saved, migratedBefore |-> migrated,
     host |-> host, names |-> names, ok |-> ok, err |-> err,
     saves |-> saves, performed |-> performed]

\* the variables of the other specifications, at rest
RaceIdle == procs = <<>> /\ writeOrder = <<>>

FileIdle == fs = <<>> /\ fproc = <<>> /\ stable = <<>> /\ fload = <<>>

ProvIdle == kubeconfigFile = <<>> /\ prov = <<>>

KubeIdle ==
    /\ saved = [n \in Names |-> <<>>]
    /\ migrated = {}
    /\ last = [op |-> "init", name |-> "", arg |-> <<>>, fault |-> "none",
               before |-> [n \in Names |-> <<>>],
               savedBefore |-> [n \in Names |-> <<>>], migratedBefore |-> {},
               host |-> <<>>, names |-> <<>>, ok |-> FALSE, err |-> NoErr,
               saves |-> <<>>, performed |-> FALSE]

Init ==
    /\ nodes = [n \in Names |-> <<>>]
    /\ KubeIdle
    /\ RaceIdle
    /\ FileIdle
    /\ ProvIdle

DoSave(h, fault) ==
    LET r == Save(nodes, h, fault)
    IN  /\ nodes' = r.nodes
        /\ saved' = IF r.err = NoErr THEN [saved EXCEPT ![h.Name] = <<h>>] ELSE saved
        /\ migrated' = IF r.err = NoErr THEN migrated \ {h.Name} ELSE migrated
        /\ last' = Outcome("Save", h.Name, <<h>>, fault, <<>>, <<>>, FALSE, r.err,
                           <<>>, FALSE)
        /\ UNCHANGED <<raceVars, fileVars, provVars>>

DoLoad(name, fault) ==
    LET r == Load(nodes, name, fault)
        resaved == r.performed /\ r.err = NoErr
    IN  /\ nodes' = r.nodes
        /\ saved' = IF resaved THEN [saved EXCEPT ![name] = r.host] ELSE saved
        /\ migrated' = IF resaved THEN migrated \cup {name} ELSE migrated
        /\ last' = Outcome("Load", name, <<>>, fault, r.host, <<>>, FALSE, r.err,
                           r.saves, r.performed)
        /\ UNCHANGED <<raceVars, fileVars, provVars>>

DoRemove(name, fault) ==
    LET r == Remove(nodes, name, fault)
    IN  /\ nodes' = r.nodes
        /\ saved' = IF r.err = NoErr THEN [saved EXCEPT ![name] = <<>>] ELSE saved
        /\ migrated' = IF r.err = NoErr THEN migrated \ {name} ELSE migrated
        /\ last' = Outcome("Remove", name, <<>>, fault, <<>>, <<>>, FALSE, r.err,
                           <<>>, FALSE)
        /\ UNCHANGED <<raceVars, fileVars, provVars>>

DoList(fault) ==
    LET r == List(nodes, fault)
    IN  /\ last' = Outcome("List", "", <<>>, fault, <<>>, r.names, FALSE, r.err,
                           <<>>, FALSE)
        /\ UNCHANGED <<nodes, saved, migrated, raceVars, fileVars, provVars>>

DoExists(name, fault) ==
    LET r == Exists(nodes, name, fault)
    IN  /\ last' = Outcome("Exists", name, <<>>, fault, <<>>, <<>>, r.ok, r.err,
                           <<>>, FALSE)
        /\ UNCHANGED <<nodes, saved, migrated, raceVars, fileVars, provVars>>

\* a node of the cluster that the store never saved: a kubelet registers itself
ClusterNodes(name) ==
    {[Name |-> name, Annotations |-> NilMap, Labels |-> NilMap],
     [Name |-> name, Annotations |-> MakeMap(ForeignAnnotationKey, "0"),
      Labels |-> MakeMap(ForeignLabel, name)]}

RegisterNode(node) ==
    LET r == ApiCreate(nodes, node, FALSE)
    IN  /\ r.err = NoErr
        /\ nodes' = r.nodes
        /\ last' = Outcome("Register", node.Name, <<>>, "none", <<>>, <<>>, FALSE,
                           NoErr, <<>>, FALSE)
        /\ UNCHANGED <<saved, migrated, raceVars, fileVars, provVars>>

Next ==
    \/ \E h \in Hosts, f \in SaveFaults : DoSave(h, f)
    \/ \E n \in Names, f \in LoadFaults : DoLoad(n, f)
    \/ \E n \in Names, f \in {"none", "delete"} : DoRemove(n, f)
    \/ \E f \in {"none", "list"} : DoList(f)
    \/ \E n \in Names, f \in {"none", "get"} : DoExists(n, f)
    \/ \E n \in Names : \E node \in ClusterNodes(n) : RegisterNode(node)

Spec == Init /\ [][Next]_vars

-----------------------------------------------------------------------------
(* Properties of the Kubernetes-backed store *)

\* name has a stored record in ns: a node carrying the marker annotation
HasRecord(ns, name) ==
    ns[name] # <<>> /\ HasKey(ns[name][1].Annotations, KubeMachineAnnotationKey)

StoredData(ns, name) == ns[name][1].Annotations.kv[KubeMachineAnnotationKey]

SeqToSet(s) == {s[i] : i \in 1..Len(s)}

\* C1: a Load of a name whose last successful Save wrote a record h of the
\* current schema version (no Save or Remove of that name since) succeeds,
\* when its Get does not fail, and returns a record equal to h.
C1_SaveLoadRoundTrip ==
    (/\ last.op = "Load"
     /\ last.fault # "get"
     /\ last.savedBefore[last.name] # <<>>
     /\ last.savedBefore[last.name][1].ConfigVersion = CurrentVersion)
    => (/\ last.err = NoErr
        /\ last.host = last.savedBefore[last.name])

\* the round trip through the update path: the node existed, with annotations
\* of its own, before the record was saved on it
C1_Witness ==
    /\ last.op = "Load"
    /\ last.savedBefore[last.name] # <<>>
    /\ last.savedBefore[last.name][1].ConfigVersion = CurrentVersion
    /\ HasKey(nodes[last.name][1].Annotations, ForeignAnnotationKey)
    /\ last.host = last.savedBefore[last.name]
    /\ last.host[1].Driver = DriverPool[MaxDrivers].Driver

\* C3: a Load that migrates calls Save exactly once, with the upgraded record,
\* and when it succeeds the stored annotation holds the current schema version;
\* a Load of a record already at the current version, and so every later Load
\* of a migrated record, calls no Save and leaves the store unchanged.
C3_MigrationIdempotent ==
    last.op = "Load" =>
      /\ last.performed =>
            /\ HasRecord(last.before, last.name)
            /\ last.saves =
                 <<[Unmarshal(StoredData(last.before, last.name))
                      EXCEPT !.ConfigVersion = CurrentVersion, !.Name = last.name]>>
      /\ (last.performed /\ last.err = NoErr) =>
            /\ StoredData(nodes, last.name) = MarshalIndent(last.saves[1])
            /\ Unmarshal(StoredData(nodes, last.name)).ConfigVersion = CurrentVersion
      /\ (/\ HasRecord(last.before, last.name)
          /\ Unmarshal(StoredData(last.before, last.name)).ConfigVersion = CurrentVersion)
            => (last.saves = <<>> /\ nodes = last.before)
      /\ ~HasRecord(last.before, last.name) => (last.saves = <<>> /\ nodes = last.before)
      /\ last.name \in last.migratedBefore =>
            (~last.performed /\ last.saves = <<>> /\ nodes = last.before)

\* a second Load of a record that an earlier Load migrated
C3_Witness ==
    /\ last.op = "Load"
    /\ last.name \in last.migratedBefore
    /\ last.err = NoErr
    /\ last.saves = <<>>

\* C4: a successful List returns, once each, exactly the names of the nodes
\* that carry the marker annotation: every name saved and not removed since is
\* among them, and no node without the marker is.
C4_ListMarkedOnly ==
    (last.op = "List" /\ last.err = NoErr) =>
      /\ SeqToSet(last.names) = {n \in Names : HasRecord(nodes, n)}
      /\ Len(last.names) = Cardinality(SeqToSet(last.names))
      /\ \A n \in Names : saved[n] # <<>> => n \in SeqToSet(last.names)
      /\ \A n \in Names : (nodes[n] # <<>> /\ ~HasRecord(nodes, n)) => n \notin SeqToSet(last.names)

\* a List over a cluster that holds a saved node and a node never saved
C4_Witness ==
    /\ last.op = "List"
    /\ last.err = NoErr
    /\ last.names # <<>>
    /\ \E n \in Names : nodes[n] # <<>> /\ ~HasRecord(nodes, n)

\* C7 (as claimed): Load of a name with no stored record returns
\* ErrHostDoesNotExist{name} and Exists returns (false, nil); when Get fails
\* with another error Load and Exists return that error; the store is unchanged
\* in all these outcomes.
C7_NotFoundIsOneKind ==
    /\ (last.op = "Load" /\ last.fault # "get" /\ ~HasRecord(last.before, last.name))
          => (last.err = ErrHostDoesNotExist(last.name) /\ nodes = last.before)
    /\ (last.op = "Exists" /\ last.fault # "get" /\ ~HasRecord(last.before, last.name))
          => (last.ok = FALSE /\ last.err = NoErr /\ nodes = last.before)
    /\ (last.op \in {"Load", "Exists"} /\ last.fault = "get")
          => (last.err = ServerErr /\ nodes = last.before)

\* C10: a successful Save(h) leaves the node h.Name with the marker annotation
\* equal to the serialization of h and the marker label "true"; a created node
\* carries nothing else, an updated node keeps every other annotation and label
\* it had; every other node is unchanged. A Save that returns an error, as when
\* its Get fails, has written nothing and returns the API's error.
C10_SaveFrame ==
    last.op = "Save" =>
      LET name == last.name
          h    == last.arg[1]
      IN  /\ last.err = NoErr =>
                /\ nodes[name] # <<>>
                /\ nodes[name][1].Name = name
                /\ HasKey(nodes[name][1].Annotations, KubeMachineAnnotationKey)
                /\ StoredData(nodes, name) = MarshalIndent(h)
                /\ HasKey(nodes[name][1].Labels, KubeMachineLabel)
                /\ nodes[name][1].Labels.kv[KubeMachineLabel] = "true"
                /\ \A m \in Names \ {name} : nodes[m] = last.before[m]
                /\ LET old == IF last.before[name] = <<>>
                              THEN [Annotations |-> NilMap, Labels |-> NilMap]
                              ELSE last.before[name][1]
                   IN  /\ DOMAIN nodes[name][1].Annotations.kv =
                            DOMAIN old.Annotations.kv \cup {KubeMachineAnnotationKey}
                       /\ DOMAIN nodes[name][1].Labels.kv =
                            DOMAIN old.Labels.kv \cup {KubeMachineLabel}
                       /\ \A k \in DOMAIN old.Annotations.kv \ {KubeMachineAnnotationKey} :
                            nodes[name][1].Annotations.kv[k] = old.Annotations.kv[k]
                       /\ \A k \in DOMAIN old.Labels.kv \ {KubeMachineLabel} :
                            nodes[name][1].Labels.kv[k] = old.Labels.kv[k]
          /\ last.err # NoErr => nodes = last.before
          /\ last.fault = "save.get" => last.err = ServerErr
          /\ last.fault = "none" => last.err = NoErr

\* a Save that updated a node carrying an annotation and a label of its own
C10_Witness ==
    /\ last.op = "Save"
    /\ last.err = NoErr
    /\ last.before[last.name] # <<>>
    /\ HasKey(last.before[last.name][1].Annotations, ForeignAnnotationKey)
    /\ HasKey(last.before[last.name][1].Labels, ForeignLabel)
    /\ \E m \in Names \ {last.name} : nodes[m] # <<>>

-----------------------------------------------------------------------------
(* SpecRace: two processes run Save for one node name; each API call is a   *)
(* step of its own, since the store takes no lock                           *)

Procs == {"p1", "p2"}

RaceName == NameOrder[1]

RaceHosts == {h \in Hosts : h.Name = RaceName}

\* the cluster a race starts from: the node missing, or registered by its kubelet
InitRace ==
    /\ \E start \in {<<>>} \cup {<<node>> : node \in ClusterNodes(RaceName)} :
          nodes = [n \in Names |-> IF n = RaceName THEN start ELSE <<>>]
    /\ procs \in [Procs -> {[pc |-> "start", h |-> h, got |-> [node |-> <<>>, err |-> NoErr],
                             stale |-> FALSE, err |-> NoErr] : h \in RaceHosts}]
    /\ writeOrder = <<>>
    /\ KubeIdle
    /\ FileIdle
    /\ ProvIdle

\* Save, up to the answer of Nodes().Get
RaceGet(p) ==
    /\ procs[p].pc = "start"
    /\ procs' = [procs EXCEPT ![p].pc = "got",
                              ![p].got = ApiGet(nodes, procs[p].h.Name, FALSE),
                              ![p].stale = FALSE]
    /\ UNCHANGED <<nodes, writeOrder, kubeVars, fileVars, provVars>>

\* Save, from the answer of Get to its return: Create or Update with what was read
RaceWrite(p) ==
    /\ procs[p].pc = "got"
    /\ LET h    == procs[p].h
           got  == procs[p].got
           data == MarshalIndent(h)
           r    == IF got.err # NoErr /\ IsNotFound(got.err)
                   THEN ApiCreate(nodes, NewNode(h, data), FALSE)
                   ELSE IF got.err # NoErr
                   THEN [nodes |-> nodes, err |-> got.err]
                   ELSE ApiUpdate(nodes, MarkNode(got.node[1], data), FALSE, procs[p].stale)
       IN  /\ nodes' = r.nodes
           /\ procs' = [q \in Procs |->
                          IF q = p THEN [procs[q] EXCEPT !.pc = "done", !.err = r.err]
                          ELSE IF r.err = NoErr /\ procs[q].pc = "got"
                          THEN [procs[q] EXCEPT !.stale = TRUE]
                          ELSE procs[q]]
           /\ writeOrder' = Append(writeOrder, p)
    /\ UNCHANGED <<kubeVars, fileVars, provVars>>

NextRace == \E p \in Procs : RaceGet(p) \/ RaceWrite(p)

SpecRace == InitRace /\ [][NextRace]_vars

\* C9 (as claimed): whatever the interleaving of two Saves of one name, both
\* return success and the annotation stored in the end is the record of the
\* Save whose write reached the API server last.
C9_LastWriteWins ==
    (\A p \in Procs : procs[p].pc = "done") =>
      /\ \A p \in Procs : procs[p].err = NoErr
      /\ HasRecord(nodes, RaceName)
      /\ StoredData(nodes, RaceName) = MarshalIndent(procs[writeOrder[Len(writeOrder)]].h)

-----------------------------------------------------------------------------
(* SpecFile: the file-backed store. Save runs system call by system call,   *)
(* and the process may die between any two of them                          *)

NoFile == [exists |-> FALSE, data |-> <<>>]

EmptyFile == [exists |-> TRUE, data |-> <<>>]

FileOf(data) == [exists |-> TRUE, data |-> data]

\* <base>/machines/<name>/ : the directory, config.json, config.json.bak and
\* the temporary file of the running save
NoDir == [dir |-> FALSE, config |-> NoFile, bak |-> NoFile, tmp |-> NoFile]

FprocIdle == [pc |-> "idle", name |-> "", data |-> <<>>]

FloadIdle == [op |-> "none", name |-> "", host |-> <<>>, err |-> NoErr, before |-> NoFile]

\* the record the file-backed Load returns for every name
DefaultHost(name) ==
    [ConfigVersion |-> CurrentVersion, Driver |-> "url=https://1.2.3.4:1234",
     DriverName |-> "none", HostOptions |-> "Driver=none,Memory=42,Disk=1234",
     Name |-> name]

InitFile ==
    /\ nodes = [n \in Names |-> <<>>]
    /\ fs = [n \in Names |-> NoDir]
    /\ fproc = FprocIdle
    /\ stable = [n \in Names |-> NoFile]
    /\ fload = FloadIdle
    /\ KubeIdle
    /\ RaceIdle
    /\ ProvIdle

FileUnchanged == UNCHANGED <<nodes, kubeVars, raceVars, provVars>>

\* Save: MarshalIndent, then MkdirAll of the machine's directory. A temp file
\* that a dead process left behind has another random name and is never read
\* again: tmp is the file of the running save only
FileSaveStart(h) ==
    /\ fproc.pc \in {"idle", "crashed"}
    /\ fproc' = [pc |-> "stat", name |-> h.Name, data |-> MarshalIndent(h)]
    /\ fs' = [fs EXCEPT ![h.Name].dir = TRUE, ![h.Name].tmp = NoFile]
    /\ stable' = [n \in Names |-> fs[n].config]
    /\ fload' = FloadIdle
    /\ FileUnchanged

\* saveToFile: os.Stat(file) chooses between the direct write and the temp file
FileStat ==
    /\ fproc.pc = "stat"
    /\ fproc' = [fproc EXCEPT !.pc = IF ~fs[fproc.name].config.exists
                                     THEN "write.open" ELSE "tmp.create"]
    /\ UNCHANGED <<fs, stable, fload>>
    /\ FileUnchanged

\* ioutil.WriteFile(file, ...): the target is created, empty
FileWriteOpen ==
    /\ fproc.pc = "write.open"
    /\ fs' = [fs EXCEPT ![fproc.name].config = EmptyFile]
    /\ fproc' = [fproc EXCEPT !.pc = "write.data"]
    /\ UNCHANGED <<stable, fload>>
    /\ FileUnchanged

\* ioutil.WriteFile(file, ...): the bytes are written (one write call, which a
\* dying process has made or has not), the file closed; Save returns
FileWriteData ==
    /\ fproc.pc = "write.data"
    /\ fs' = [fs EXCEPT ![fproc.name].config = FileOf(fproc.data)]
    /\ fproc' = FprocIdle
    /\ stable' = [n \in Names |-> fs'[n].config]
    /\ UNCHANGED fload
    /\ FileUnchanged

\* ioutil.TempFile(dir, "config.json.tmp"): a new empty file beside the target
FileTmpCreate ==
    /\ fproc.pc = "tmp.create"
    /\ fs' = [fs EXCEPT ![fproc.name].tmp = EmptyFile]
    /\ fproc' = [fproc EXCEPT !.pc = "tmp.write"]
    /\ UNCHANGED <<stable, fload>>
    /\ FileUnchanged

\* ioutil.WriteFile(tmp, ...) and tmpfi.Close()
FileTmpWrite ==
    /\ fproc.pc = "tmp.write"
    /\ fs' = [fs EXCEPT ![fproc.name].tmp = FileOf(fproc.data)]
    /\ fproc' = [fproc EXCEPT !.pc = "remove"]
    /\ UNCHANGED <<stable, fload>>
    /\ FileUnchanged

\* os.Remove(file): the target is deleted before the rename
FileRemoveTarget ==
    /\ fproc.pc = "remove"
    /\ fs' = [fs EXCEPT ![fproc.name].config = NoFile]
    /\ fproc' = [fproc EXCEPT !.pc = "rename"]
    /\ UNCHANGED <<stable, fload>>
    /\ FileUnchanged

\* os.Rename(tmp, file); the deferred os.Remove(tmp) finds nothing; Save returns
FileRename ==
    /\ fproc.pc = "rename"
    /\ fs' = [fs EXCEPT ![fproc.name].config = fs[fproc.name].tmp,
                        ![fproc.name].tmp = NoFile]
    /\ fproc' = FprocIdle
    /\ stable' = [n \in Names |-> fs'[n].config]
    /\ UNCHANGED fload
    /\ FileUnchanged

\* the process dies between two system calls of a save
FileCrash ==
    /\ fproc.pc \notin {"idle", "crashed"}
    /\ fproc' = [fproc EXCEPT !.pc = "crashed"]
    /\ UNCHANGED <<fs, stable, fload>>
    /\ FileUnchanged

\* a node of the cluster registers itself (the file-backed Load asks the API server)
ClusterJoin(node) ==
    LET r == ApiCreate(nodes, node, FALSE)
    IN  /\ r.err = NoErr
        /\ nodes' = r.nodes
        /\ UNCHANGED <<kubeVars, raceVars, fileVars, provVars>>

\* Load of the file-backed store: Get on the API server, then a fixed record
FileLoad(name) ==
    /\ fproc.pc \in {"idle", "crashed"}
    /\ LET got == ApiGet(nodes, name, FALSE)
       IN  fload' = IF got.err # NoErr
                    THEN [op |-> "Load", name |-> name, host |-> <<>>, err |-> got.err,
                          before |-> fs[name].config]
                    ELSE [op |-> "Load", name |-> name, host |-> <<DefaultHost(name)>>,
                          err |-> NoErr, before |-> fs[name].config]
    /\ UNCHANGED <<fs, fproc, stable>>
    /\ FileUnchanged

NextFile ==
    \/ \E h \in Hosts : FileSaveStart(h)
    \/ FileStat
    \/ FileWriteOpen
    \/ FileWriteData
    \/ FileTmpCreate
    \/ FileTmpWrite
    \/ FileRemoveTarget
    \/ FileRename
    \/ FileCrash
    \/ \E n \in Names : \E node \in ClusterNodes(n) : ClusterJoin(node)
    \/ \E n \in Names : FileLoad(n)

SpecFile == InitFile /\ [][NextFile]_vars

\* C2 (as claimed): wherever the process dies during a save, config.json of
\* the machine being saved holds the complete content it had before the save
\* (none, if there was no file) or the complete new content.
C2_AtomicFileSave ==
    fproc.pc = "crashed" =>
      \/ fs[fproc.name].config = stable[fproc.name]
      \/ fs[fproc.name].config = FileOf(fproc.data)

\* C8 (as claimed): Load returns the record that migration derives from the
\* bytes of config.json; when migration changed the schema version, the
\* original bytes are in config.json.bak and config.json holds the migrated
\* record.
C8_FileLoadFromFile ==
    (/\ fload.op = "Load"
     /\ fload.err = NoErr
     /\ fload.before.exists
     /\ fload.before.data # <<>>)
    => LET m == MigrateHost(fload.name, fload.before.data)
       IN  /\ fload.host = <<[m.host[1] EXCEPT !.Name = fload.name]>>
           /\ m.performed =>
                /\ fs[fload.name].bak = fload.before
                /\ fs[fload.name].config = FileOf(MarshalIndent(fload.host[1]))

-----------------------------------------------------------------------------
(* SpecProv: KubeletProvisionerWrapper *)

nodeKubeconfigPath == "/etc/kubeconfig"

kubeletUnitPath == "/etc/systemd/system/kubelet.service"

\* the unit file's text, cut to its first line: "[Unit]"
kubeletUnitFile == <<91, 85, 110, 105, 116, 93>>

ByteSamples == {97, 255}

Blobs == UNION {[1..n -> ByteSamples] : n \in 0..MaxBlobLen}

ChmodModes == {"0600", "0644"}

RemotePaths == {nodeKubeconfigPath, kubeletUnitPath}

\* base64.StdEncoding.EncodeToString: the 6-bit digits, 64 standing for '='
RECURSIVE Base64(_)
Base64(b) ==
    IF Len(b) = 0 THEN <<>>
    ELSE IF Len(b) = 1
    THEN <<b[1] \div 4, (b[1] % 4) * 16, 64, 64>>
    ELSE IF Len(b) = 2
    THEN <<b[1] \div 4, (b[1] % 4) * 16 + b[2] \div 16, (b[2] % 16) * 4, 64>>
    ELSE <<b[1] \div 4, (b[1] % 4) * 16 + b[2] \div 16,
           (b[2] % 16) * 4 + b[3] \div 64, b[3] % 64>>
         \o Base64(SubSeq(b, 4, Len(b)))

CmdText ==
    "touch {{.Path}} && chmod {{.Chmod}} {{.Path}} && echo \"{{.Data64}}\" | base64 -d >> {{.Path}}"

\* template.New(name): a template of that name with no parse tree; only Parse
\* gives it one
TemplateNew(name) == [name |-> name, parsed |-> FALSE]

\* CmdText with the fields of ctx in place of its actions
Render(ctx) ==
    <<"touch ", ctx.Path, " && chmod ", ctx.Chmod, " ", ctx.Path, " && echo \"",
      ctx.Data64, "\" | base64 -d >> ", ctx.Path>>

\* (*Template).Execute: a template without a parse tree is an error
Execute(t, ctx) ==
    IF ~t.parsed
    THEN [out |-> <<>>, err |-> <<"template: incomplete or empty template", t.name>>]
    ELSE [out |-> Render(ctx), err |-> NoErr]

SSHErr == <<"ssh: exit status 1">>

\* Provisioner.SSHCommand on the node
SSHCommand(cmd, fails) ==
    IF fails THEN [out |-> "permission denied", err |-> SSHErr]
    ELSE [out |-> "", err |-> NoErr]

\* scp: the context and the commands it issued, the error of the call that
\* failed (cause) and the error it returned
scp(data, path, chmod, sshFails) ==
    LET data64 == Base64(data)
        ctx    == [Path |-> nodeKubeconfigPath, Data64 |-> data64, Chmod |-> chmod]
        ex     == Execute(TemplateNew(CmdText), ctx)
    IN  IF ex.err # NoErr
        THEN [ctx |-> ctx, cmds |-> <<>>, cause |-> ex.err, err |-> ex.err]
        ELSE LET r == SSHCommand(ex.out, sshFails)
             IN  IF r.err # NoErr
                 THEN [ctx |-> ctx, cmds |-> <<ex.out>>, cause |-> r.err,
                       err |-> Errorf("Failed to run SSH command (error: ", r.err)
                                 \o <<"): ", r.out>>]
                 ELSE [ctx |-> ctx, cmds |-> <<ex.out>>, cause |-> NoErr, err |-> NoErr]

ReadFileErr == <<"open: no such file or directory">>

ProvisionErr == <<"underlying provisioner failed">>

\* Provision going on to the unit file whatever the copy of the kubeconfig returned
ProvisionIgnoresCopyError(underlying, file, sshFail) ==
    IF underlying # NoErr
    THEN [steps |-> <<"Provision">>, causes |-> <<underlying>>, ctxs |-> <<>>,
          cmds |-> <<>>, err |-> underlying]
    ELSE IF ~file.exists
    THEN [steps |-> <<"Provision", "ReadFile">>, causes |-> <<NoErr, ReadFileErr>>,
          ctxs |-> <<>>, cmds |-> <<>>, err |-> ReadFileErr]
    ELSE LET c1 == scp(file.data, nodeKubeconfigPath, "0600", sshFail = 1)
             c2 == scp(kubeletUnitFile, kubeletUnitPath, "0600", sshFail = 2)
         IN  [steps |-> <<"Provision", "ReadFile", "scp kubeconfig", "scp kubelet unit">>,
              causes |-> <<NoErr, NoErr, c1.cause, c2.cause>>,
              ctxs |-> <<c1.ctx, c2.ctx>>, cmds |-> c1.cmds \o c2.cmds, err |-> c2.err]

\* Provision: the steps it ran, the error of each (causes), the contexts and
\* the commands of its copies, and the error it returned.
\* underlying: what the wrapped Provision returns; file: the local kubeconfig;
\* sshFail: which remote command fails on the node (0: none)
Provision(underlying, file, sshFail) ==
    IF underlying # NoErr
    THEN [steps |-> <<"Provision">>, causes |-> <<underlying>>, ctxs |-> <<>>,
          cmds |-> <<>>, err |-> underlying]
    ELSE IF ~file.exists
    THEN [steps |-> <<"Provision", "ReadFile">>, causes |-> <<NoErr, ReadFileErr>>,
          ctxs |-> <<>>, cmds |-> <<>>, err |-> ReadFileErr]
    ELSE LET c1 == scp(file.data, nodeKubeconfigPath, "0600", sshFail = 1)
         IN  IF c1.err # NoErr
             THEN [steps |-> <<"Provision", "ReadFile", "scp kubeconfig">>,
                   causes |-> <<NoErr, NoErr, c1.cause>>, ctxs |-> <<c1.ctx>>,
                   cmds |-> c1.cmds, err |-> c1.err]
             ELSE LET c2 == scp(kubeletUnitFile, kubeletUnitPath, "0600", sshFail = 2)
                  IN  [steps |-> <<"Provision", "ReadFile", "scp kubeconfig",
                                   "scp kubelet unit">>,
                       causes |-> <<NoErr, NoErr, NoErr, c2.cause>>,
                       ctxs |-> <<c1.ctx, c2.ctx>>, cmds |-> c1.cmds \o c2.cmds,
                       err |-> c2.err]

ProvIdleCall ==
    [op |-> "none", underlying |-> NoErr, sshFail |-> 0, file |-> NoFile,
     data |-> <<>>, path |-> "", chmod |-> "",
     steps |-> <<>>, causes |-> <<>>, ctxs |-> <<>>, cmds |-> <<>>, err |-> NoErr]

InitProv ==
    /\ kubeconfigFile = NoFile
    /\ prov = ProvIdleCall
    /\ nodes = [n \in Names |-> <<>>]
    /\ KubeIdle
    /\ RaceIdle
    /\ FileIdle

ProvUnchanged == UNCHANGED <<nodes, kubeVars, raceVars, fileVars>>

\* the operator's kubeconfig is written, or replaced
WriteKubeconfig(blob) ==
    /\ kubeconfigFile' = FileOf(blob)
    /\ UNCHANGED prov
    /\ ProvUnchanged

\* the operator's kubeconfig is deleted
RemoveKubeconfig ==
    /\ kubeconfigFile.exists
    /\ kubeconfigFile' = NoFile
    /\ UNCHANGED prov
    /\ ProvUnchanged

DoProvision(underlying, sshFail) ==
    LET r == Provision(underlying, kubeconfigFile, sshFail)
    IN  /\ prov' = [ProvIdleCall EXCEPT !.op = "Provision", !.underlying = underlying,
                                        !.sshFail = sshFail, !.file = kubeconfigFile,
                                        !.steps = r.steps, !.causes = r.causes,
                                        !.ctxs = r.ctxs, !.cmds = r.cmds, !.err = r.err]
        /\ UNCHANGED kubeconfigFile
        /\ ProvUnchanged

\* scp by itself, on any bytes, path and mode
DoScp(data, path, chmod, sshFails) ==
    LET r == scp(data, path, chmod, sshFails)
    IN  /\ prov' = [ProvIdleCall EXCEPT !.op = "scp", !.data = data, !.path = path,
                                        !.chmod = chmod,
                                        !.sshFail = IF sshFails THEN 1 ELSE 0,
                                        !.steps = <<"scp">>, !.causes = <<r.cause>>,
                                        !.ctxs = <<r.ctx>>, !.cmds = r.cmds, !.err = r.err]
        /\ UNCHANGED kubeconfigFile
        /\ ProvUnchanged

NextProv ==
    \/ \E blob \in Blobs : WriteKubeconfig(blob)
    \/ RemoveKubeconfig
    \/ \E u \in {NoErr, ProvisionErr}, f \in 0..2 : DoProvision(u, f)
    \/ \E data \in Blobs \cup {kubeletUnitFile}, path \in RemotePaths,
          chmod \in ChmodModes, fails \in BOOLEAN : DoScp(data, path, chmod, fails)

SpecProv == InitProv /\ [][NextProv]_vars

ProvisionSteps == <<"Provision", "ReadFile", "scp kubeconfig", "scp kubelet unit">>

\* C5: Provision runs its steps in the fixed order, each only after all the
\* steps before it succeeded; it returns the error of the step that failed, as
\* that step gave it, and nil only after the last step succeeded; when the
\* underlying Provision fails no remote command is issued, and when the copy
\* of the kubeconfig fails the copy of the kubelet unit is not attempted.
C5_ProvisionAborts ==
    prov.op = "Provision" =>
      LET n == Len(prov.steps)
      IN  /\ n >= 1
          /\ prov.steps = SubSeq(ProvisionSteps, 1, n)
          /\ Len(prov.causes) = n
          /\ \A i \in 1..(n - 1) : prov.causes[i] = NoErr
          /\ prov.err = prov.causes[n]
          /\ prov.err = NoErr => n = Len(ProvisionSteps)
          /\ prov.underlying # NoErr =>
                (prov.steps = <<"Provision">> /\ prov.cmds = <<>>
                 /\ prov.err = prov.underlying)
          /\ Len(prov.ctxs) = (IF n >= 3 THEN n - 2 ELSE 0)

\* the copy of the kubeconfig failed: the unit file was not copied, and the
\* caller got that copy's error
C5_Witness ==
    /\ prov.op = "Provision"
    /\ prov.underlying = NoErr
    /\ prov.steps = <<"Provision", "ReadFile", "scp kubeconfig">>
    /\ prov.err # NoErr
    /\ prov.err = prov.causes[3]

\* C6 (as claimed): the command scp(data, path, mode) builds carries data and
\* writes to path: after a successful Provision the kubeconfig bytes went to
\* /etc/kubeconfig and the unit file to /etc/systemd/system/kubelet.service.
C6_FilesToOwnPaths ==
    /\ prov.op = "scp" =>
          /\ prov.ctxs[1].Path = prov.path
          /\ prov.ctxs[1].Data64 = Base64(prov.data)
          /\ \A i \in 1..Len(prov.cmds) :
                prov.cmds[i] = Render([Path |-> prov.path, Data64 |-> Base64(prov.data),
                                        Chmod |-> prov.chmod])
    /\ (prov.op = "Provision" /\ prov.err = NoErr) =>
          prov.cmds = <<Render([Path |-> nodeKubeconfigPath,
                                Data64 |-> Base64(prov.file.data), Chmod |-> "0600"]),
                        Render([Path |-> kubeletUnitPath,
                                Data64 |-> Base64(kubeletUnitFile), Chmod |-> "0600"])>>

====
